---- MODULE Spec2Model ----
(***************************************************************************)
(* Transcript assembly and archival pipeline of ConversationEnded.tsx:     *)
(* getTranscriptData (extract), getNames / generateTranscript (render),    *)
(* getMediaUrls and handleDownloadTranscript (package and hand to saveAs). *)
(*                                                                         *)
(* JavaScript values are represented as follows.                           *)
(*   undefined / null   the record [defined |-> FALSE]                     *)
(*   a present array x  the record [defined |-> TRUE, val |-> x]           *)
(*   (an empty array is present: it is truthy in JavaScript)               *)
(*   an absent author   the string Absent; a template literal prints it    *)
(*                      as "undefined" (operator Str)                      *)
(*   a string built by concatenation is the sequence of its pieces        *)
(***************************************************************************)
EXTENDS Integers, Sequences, FiniteSets, TLC

VARIABLES messages, users, pc, downloadingTranscript, transcriptData,
          transcript, resolution, mediaURLs, logs, zipFiles, fetches,
          zipState, saved

vars == <<messages, users, pc, downloadingTranscript, transcriptData,
          transcript, resolution, mediaURLs, logs, zipFiles, fetches,
          zipState, saved>>

(***************************************************************************)
(* Bounds of the model.                                                    *)
(***************************************************************************)
\* longest message sequence
MaxMsgs == 2
\* most attachments in one conversation (summed over its messages)
MaxMedia == 2
\* longest participant list
MaxUsers == 2

(***************************************************************************)
(* Input domains.                                                          *)
(***************************************************************************)
undefined == [defined |-> FALSE]

null == [defined |-> FALSE]

Def(v) == [defined |-> TRUE, val |-> v]

Absent == "<absent>"

Concierge == "Concierge"

\* author identities a message can carry; one has no participant record
\* whenever the participant list leaves it out
Identities == {"u1", "u2", Concierge}

\* User: identity and friendlyName; one record per distinct identity
UserRecords ==
    { [identity |-> "u1", friendlyName |-> "Alice"],
      [identity |-> "u2", friendlyName |-> "Bob"],
      [identity |-> Concierge, friendlyName |-> "Bot"] }

Filenames == {"a.png", "b.png"}

Media == [filename : Filenames]

\* message.body of the i-th message (bodies are arbitrary text)
Bodies == <<"hello", "need help", "thanks", "bye", "ok">>

SeqsUpTo(S, n) == UNION { [1..k -> S] : k \in 0..n }

\* Media[] | null
AttachedMediaValues == {null} \cup { Def(s) : s \in SeqsUpTo(Media, MaxMedia) }

CountMedia(am) == IF am.defined THEN Len(am.val) ELSE 0

RECURSIVE TotalMedia(_)
TotalMedia(ms) ==
    IF ms = <<>> THEN 0
    ELSE CountMedia(Head(ms).attachedMedia) + TotalMedia(Tail(ms))

\* Message[]: arrival order, dateCreated increasing with the position
MessageSeqsOfLen(authors, k) ==
    { ms \in { [i \in 1..k |-> [author |-> c[i][1], body |-> Bodies[i],
                                 dateCreated |-> i, attachedMedia |-> c[i][2]]]
               : c \in [1..k -> authors \X AttachedMediaValues] }
      : TotalMedia(ms) <= MaxMedia }

MessageSeqs(authors) == UNION { MessageSeqsOfLen(authors, k) : k \in 0..MaxMsgs }

Distinct(s) == \A i, j \in 1..Len(s) : i # j => s[i].identity # s[j].identity

\* User[]: the participants, one record per identity
UserSeqs == { s \in SeqsUpTo(UserRecords, MaxUsers) : Distinct(s) }

(***************************************************************************)
(* getTranscriptData (lines 26-40).                                        *)
(***************************************************************************)
\* users.find((user) => user.identity === author): the first match
find(us, author) ==
    IF \E i \in 1..Len(us) : us[i].identity = author
    THEN Def(us[CHOOSE i \in 1..Len(us) :
                   /\ us[i].identity = author
                   /\ \A j \in 1..(i - 1) : us[j].identity # author])
    ELSE undefined

\* currentUser?.friendlyName
friendlyNameOf(currentUser) ==
    IF currentUser.defined THEN currentUser.val.friendlyName ELSE Absent

\* faulty variant: the Concierge special case is lost
transcriptEntry_lookupOnly(message, us) ==
    [author |-> friendlyNameOf(find(us, message.author)),
     body |-> message.body,
     timeStamp |-> message.dateCreated,
     attachedMedia |-> message.attachedMedia]

\* the object pushed for one message (lines 30-36)
transcriptEntry(message, us) ==
    [author |-> IF message.author = Concierge
                THEN message.author
                ELSE friendlyNameOf(find(us, message.author)),
     body |-> message.body,
     timeStamp |-> message.dateCreated,
     attachedMedia |-> message.attachedMedia]

\* faulty variant: the guard tests the messages only
getTranscriptData_noUsersGuard(ms, us) ==
    IF ms.defined
    THEN [i \in 1..Len(ms.val) |->
            transcriptEntry(ms.val[i], IF us.defined THEN us.val ELSE <<>>)]
    ELSE <<>>

\* faulty variant: a message whose author has no participant record is skipped
getTranscriptData_skipUnknown(ms, us) ==
    IF ms.defined /\ us.defined
    THEN LET all == [i \in 1..Len(ms.val) |-> transcriptEntry(ms.val[i], us.val)]
             known(e) == e.author # Absent
         IN  SelectSeq(all, known)
    ELSE <<>>

\* `if (messages && users)`: an array, empty or not, is truthy
getTranscriptData(ms, us) ==
    IF ms.defined /\ us.defined
    THEN [i \in 1..Len(ms.val) |-> transcriptEntry(ms.val[i], us.val)]
    ELSE <<>>

(***************************************************************************)
(* getNames (lines 42-47) and generateTranscript (lines 49-71).            *)
(***************************************************************************)
\* `${name}`: undefined prints as the text "undefined"
Str(name) == IF name = Absent THEN "undefined" ELSE name

\* transcriptData[0].author throws a TypeError on an empty array
getNamesThrows(td) == Len(td) = 0

getNames(td) ==
    LET names == [i \in 1..Len(td) |-> td[i].author]
        customerName == td[1].author
        isAgent(name) == name # customerName /\ name # Concierge
    IN  [customerName |-> customerName, agentNames |-> SelectSeq(names, isAgent)]

\* agentNames.forEach((name) => (s = s.concat(` and ${name}`)))
RECURSIVE concatNames(_, _)
concatNames(s, agentNames) ==
    IF agentNames = <<>> THEN s
    ELSE concatNames(s \o <<" and ", Str(Head(agentNames))>>, Tail(agentNames))

conversationTitle(td) ==
    concatNames(<<"Conversation with ", Str(getNames(td).customerName)>>,
                getNames(td).agentNames)

\* `if (message.attachedMedia)`: null is falsy, an array (even []) is truthy
truthy(am) == am.defined

\* message.attachedMedia[0].filename throws a TypeError when [0] is undefined
markerThrows(entry) ==
    truthy(entry.attachedMedia) /\ Len(entry.attachedMedia.val) = 0

\* one line of the body (lines 61-67); marker is the attached file's name
messageText(entry, customerName) ==
    [bulletPoint |-> IF entry.author = customerName THEN "*" ELSE "+",
     timeStamp |-> entry.timeStamp,
     author |-> Str(entry.author),
     body |-> entry.body,
     marker |-> IF truthy(entry.attachedMedia)
                THEN Def(entry.attachedMedia.val[1].filename)
                ELSE undefined]

TypeError == [threw |-> TRUE]

\* the date and duration of the header come from toLocaleString and
\* generateDuration, which are not part of this file and are left out
generateTranscript(td) ==
    IF getNamesThrows(td) \/ (\E i \in 1..Len(td) : markerThrows(td[i]))
    THEN TypeError
    ELSE [threw |-> FALSE,
          title |-> conversationTitle(td),
          lines |-> [i \in 1..Len(td) |->
                       messageText(td[i], getNames(td).customerName)]]

\* faulty variant: an empty entry list renders an empty document
generateTranscript_noPrecondition(td) ==
    IF Len(td) = 0
    THEN [threw |-> FALSE, title |-> <<>>, lines |-> <<>>]
    ELSE generateTranscript(td)

\* generateTranscript as handleDownloadTranscript calls it (line 112)
renderTranscript(td) == generateTranscript(td)

(***************************************************************************)
(* getMediaUrls (lines 88-107) and the file name (lines 116-122).          *)
(***************************************************************************)
\* the attachments in the order the two loops of getMediaUrls visit them
RECURSIVE flattenMedia(_)
flattenMedia(ms) ==
    IF ms = <<>> THEN <<>>
    ELSE (IF truthy(Head(ms).attachedMedia) THEN Head(ms).attachedMedia.val ELSE <<>>)
         \o flattenMedia(Tail(ms))

\* `messages?.filter(...)` and `mediaMessages || []`
mediaRefs(ms) == IF ms.defined THEN flattenMedia(ms.val) ELSE <<>>

\* Date.prototype.toDateString of the first entry's time stamp
toDateString(t) == <<"Mon Jan 01 2024", "Tue Jan 02 2024", "Wed Jan 03 2024",
                     "Thu Jan 04 2024", "Fri Jan 05 2024">>[t]

\* slugify(...).toLowerCase() on each piece of the name
slugPiece(piece) ==
    CASE piece = "chat with " -> "chat-with-"
      [] piece = " and " -> "-and-"
      [] piece = "Alice" -> "alice"
      [] piece = "Bob" -> "bob"
      [] piece = "Bot" -> "bot"
      [] piece = "Concierge" -> "concierge"
      [] piece = "Mon Jan 01 2024" -> "mon-jan-01-2024"
      [] piece = "Tue Jan 02 2024" -> "tue-jan-02-2024"
      [] piece = "Wed Jan 03 2024" -> "wed-jan-03-2024"
      [] piece = "Thu Jan 04 2024" -> "thu-jan-04-2024"
      [] piece = "Fri Jan 05 2024" -> "fri-jan-05-2024"
      [] OTHER -> piece

slugify(name) == [i \in 1..Len(name) |-> slugPiece(name[i])]

fileNameOf(td) ==
    slugify(concatNames(<<"chat with ", Str(getNames(td).customerName)>>,
                        getNames(td).agentNames)
            \o <<"-", toDateString(td[1].timeStamp)>>)

(***************************************************************************)
(* JSZip: a folder keeps one entry per name; file(name, data) replaces an  *)
(* entry of the same name.  data is 0 for the transcript blob and k for    *)
(* the blob promise of mediaURLs[k].                                       *)
(***************************************************************************)
file(files, name, data) ==
    { e \in files : e.name # name } \cup { [name |-> name, data |-> data] }

RECURSIVE addMedia(_, _, _)
addMedia(files, urls, k) ==
    IF k > Len(urls) THEN files
    ELSE addMedia(file(files, <<urls[k].filename>>, k), urls, k + 1)

\* lines 125-134
buildZip(stem, urls) == addMedia(file({}, stem \o <<".txt">>, 0), urls, 1)

\* response.status === 200
StatusOk == 200

\* the answers a fetch can get; 0 stands for a rejected fetch (network error)
Statuses == {0, StatusOk, 404}

blobPromise(status) == IF status = StatusOk THEN "fulfilled" ELSE "rejected"

(***************************************************************************)
(* The state after the component is constructed: the store's snapshot of   *)
(* messages and users, and nothing downloaded.                             *)
(***************************************************************************)
Idle ==
    /\ pc = "idle"
    /\ downloadingTranscript = FALSE
    /\ transcriptData = <<>>
    /\ transcript = undefined
    /\ resolution = <<>>
    /\ mediaURLs = <<>>
    /\ logs = <<>>
    /\ zipFiles = {}
    /\ fetches = <<>>
    /\ zipState = "none"
    /\ saved = <<>>

PipelineAuthors == {"u1", "u2"}

PipelineUsers ==
    {undefined, Def(<<>>), Def(<<[identity |-> "u1", friendlyName |-> "Alice"]>>)}

Init ==
    /\ messages \in {undefined} \cup { Def(ms) : ms \in MessageSeqs(PipelineAuthors) }
    /\ users \in PipelineUsers
    /\ Idle

(***************************************************************************)
(* handleDownloadTranscript (lines 109-143).                               *)
(***************************************************************************)
\* lines 110-113: the click up to the first await; a throw rejects the
\* promise of the async handler and nothing after it runs
HandleDownloadTranscript ==
    /\ pc = "idle"
    /\ downloadingTranscript' = TRUE
    /\ transcriptData' = getTranscriptData(messages, users)
    /\ transcript' = renderTranscript(transcriptData')
    /\ pc' = IF transcript'.threw THEN "rejected" ELSE "resolving"
    /\ UNCHANGED <<messages, users, resolution, mediaURLs, logs, zipFiles,
                   fetches, zipState, saved>>

\* lines 93-100: getContentTemporaryUrl of the next attachment resolves
ResolveUrlOk ==
    /\ pc = "resolving"
    /\ Len(resolution) < Len(mediaRefs(messages))
    /\ LET k == Len(resolution) + 1
       IN  /\ resolution' = Append(resolution, "ok")
           /\ mediaURLs' = Append(mediaURLs,
                  [item |-> k, filename |-> mediaRefs(messages)[k].filename])
    /\ UNCHANGED <<messages, users, pc, downloadingTranscript, transcriptData,
                   transcript, logs, zipFiles, fetches, zipState, saved>>

\* lines 101-103: it rejects; the catch logs and the loop goes on
ResolveUrlFail ==
    /\ pc = "resolving"
    /\ Len(resolution) < Len(mediaRefs(messages))
    /\ resolution' = Append(resolution, "failed")
    /\ logs' = Append(logs, "Failed downloading message attachment")
    /\ UNCHANGED <<messages, users, pc, downloadingTranscript, transcriptData,
                   transcript, mediaURLs, zipFiles, fetches, zipState, saved>>

\* lines 116-136 and 142: some URL resolved; the zip is filled, every
\* fetch is issued, generateAsync is started and not awaited
PackageZip ==
    /\ pc = "resolving"
    /\ Len(resolution) = Len(mediaRefs(messages))
    /\ Len(mediaURLs) > 0
    /\ zipFiles' = buildZip(fileNameOf(transcriptData), mediaURLs)
    /\ fetches' = [k \in 1..Len(mediaURLs) |-> "pending"]
    /\ zipState' = "generating"
    /\ downloadingTranscript' = FALSE
    /\ pc' = "returned"
    /\ UNCHANGED <<messages, users, transcriptData, transcript, resolution,
                   mediaURLs, logs, saved>>

\* lines 116-122 and 139-142: no URL resolved; the text blob is saved
PackageText ==
    /\ pc = "resolving"
    /\ Len(resolution) = Len(mediaRefs(messages))
    /\ Len(mediaURLs) = 0
    /\ saved' = Append(saved, [blob |-> "transcriptBlob",
                               name |-> fileNameOf(transcriptData) \o <<".txt">>])
    /\ downloadingTranscript' = FALSE
    /\ pc' = "returned"
    /\ UNCHANGED <<messages, users, transcriptData, transcript, resolution,
                   mediaURLs, logs, zipFiles, fetches, zipState>>

\* lines 129-132: the answer to one fetch settles its blob promise
FetchResponse ==
    \E k \in 1..Len(fetches), status \in Statuses :
        /\ fetches[k] = "pending"
        /\ fetches' = [fetches EXCEPT ![k] = blobPromise(status)]
        /\ UNCHANGED <<messages, users, pc, downloadingTranscript, transcriptData,
                       transcript, resolution, mediaURLs, logs, zipFiles,
                       zipState, saved>>

\* the transcript blob is there from the start; a media entry waits for its fetch
entrySettled(e, state) == IF e.data = 0 THEN state = "fulfilled" ELSE fetches[e.data] = state

\* line 137: every entry of the folder has its data; the zip is saved
ZipGenerated ==
    /\ zipState = "generating"
    /\ \A e \in zipFiles : entrySettled(e, "fulfilled")
    /\ zipState' = "saved"
    /\ saved' = Append(saved, [blob |-> "zipBlob",
                               name |-> fileNameOf(transcriptData) \o <<".zip">>])
    /\ UNCHANGED <<messages, users, pc, downloadingTranscript, transcriptData,
                   transcript, resolution, mediaURLs, logs, zipFiles, fetches>>

\* line 138: the data of an entry was rejected, or the generation itself
\* fails; the catch logs and nothing is saved
ZipFailed ==
    /\ zipState = "generating"
    /\ \/ \E e \in zipFiles : entrySettled(e, "rejected")
       \/ \A e \in zipFiles : entrySettled(e, "fulfilled")
    /\ zipState' = "failed"
    /\ logs' = Append(logs, "Failed zipping message attachments")
    /\ UNCHANGED <<messages, users, pc, downloadingTranscript, transcriptData,
                   transcript, resolution, mediaURLs, zipFiles, fetches, saved>>

Next ==
    \/ HandleDownloadTranscript
    \/ ResolveUrlOk
    \/ ResolveUrlFail
    \/ PackageZip
    \/ PackageText
    \/ FetchResponse
    \/ ZipGenerated
    \/ ZipFailed

Spec == Init /\ [][Next]_vars

\* the event loop runs every continuation that is ready, and every request
\* gets an answer or an error; the click itself is the user's choice
FairSpec ==
    /\ Spec
    /\ WF_vars(ResolveUrlOk \/ ResolveUrlFail)
    /\ WF_vars(PackageZip)
    /\ WF_vars(PackageText)
    /\ WF_vars(FetchResponse)
    /\ WF_vars(ZipGenerated \/ ZipFailed)

(***************************************************************************)
(* The two functions on their own: extract, then render.                   *)
(***************************************************************************)
InitFn ==
    /\ messages \in {undefined} \cup { Def(ms) : ms \in MessageSeqs(Identities) }
    /\ users \in {undefined} \cup { Def(us) : us \in UserSeqs }
    /\ Idle

Extract ==
    /\ pc = "idle"
    /\ transcriptData' = getTranscriptData(messages, users)
    /\ pc' = "extracted"
    /\ UNCHANGED <<messages, users, downloadingTranscript, transcript, resolution,
                   mediaURLs, logs, zipFiles, fetches, zipState, saved>>

Render ==
    /\ pc = "extracted"
    /\ transcript' = generateTranscript(transcriptData)
    /\ pc' = "rendered"
    /\ UNCHANGED <<messages, users, downloadingTranscript, transcriptData,
                   resolution, mediaURLs, logs, zipFiles, fetches, zipState, saved>>

NextFn == Extract \/ Render

SpecFn == InitFn /\ [][NextFn]_vars

(***************************************************************************)
(* Properties of extract (getTranscriptData), under SpecFn.                *)
(***************************************************************************)
extracted == pc \in {"extracted", "rendered"}

lengthOf(xs) == IF xs.defined THEN Len(xs.val) ELSE 0

\* C6, as the specification states it: extract returns the empty sequence
\* whenever either input is absent or empty, an empty participant list
\* under a non-empty message sequence included.
C6_EmptyWhenEitherInputAbsentOrEmpty ==
    (extracted /\ (lengthOf(messages) = 0 \/ lengthOf(users) = 0))
        => transcriptData = <<>>

\* C6, amended: extract returns the empty sequence, without error, whenever
\* either input is absent or the message sequence is empty; with a
\* participant list that is present but empty it returns one entry per
\* message, whose author is "Concierge" for a Concierge message and absent
\* otherwise.
C6_EmptyWhenAbsentOrNoMessages ==
    extracted =>
        /\ (~messages.defined \/ ~users.defined \/ lengthOf(messages) = 0)
              => transcriptData = <<>>
        /\ (messages.defined /\ users.defined /\ lengthOf(users) = 0)
              => /\ Len(transcriptData) = Len(messages.val)
                 /\ \A i \in 1..Len(transcriptData) :
                       transcriptData[i].author =
                           IF messages.val[i].author = Concierge
                           THEN Concierge ELSE Absent

C6_Witness ==
    /\ pc = "extracted"
    /\ messages.defined /\ Len(messages.val) = MaxMsgs
    /\ users = Def(<<>>)
    /\ Len(transcriptData) = MaxMsgs

\* C7: with a participant list supplied, extract yields exactly one entry
\* per message, in the same order and the same count, the i-th entry
\* carrying the body, the time stamp and the attached media of the i-th
\* message; neither input is modified.
C7_EntriesFollowMessages ==
    (extracted /\ users.defined) =>
        /\ Len(transcriptData) = lengthOf(messages)
        /\ \A i \in 1..Len(transcriptData) :
              /\ transcriptData[i].body = messages.val[i].body
              /\ transcriptData[i].timeStamp = messages.val[i].dateCreated
              /\ transcriptData[i].attachedMedia = messages.val[i].attachedMedia

C7_OnePerMessageInOrder ==
    /\ []C7_EntriesFollowMessages
    /\ [][messages' = messages /\ users' = users]_vars

C7_Witness ==
    /\ pc = "extracted"
    /\ users.defined /\ messages.defined
    /\ Len(messages.val) = MaxMsgs
    /\ Len(transcriptData) = MaxMsgs
    /\ transcriptData[1].author = Absent
    /\ truthy(transcriptData[MaxMsgs].attachedMedia)
    /\ transcriptData[1].body # transcriptData[MaxMsgs].body

hasParticipant(identity) ==
    \E j \in 1..Len(users.val) : users.val[j].identity = identity

\* C8: the extracted author is the literal "Concierge" when the author
\* identity is "Concierge", whatever the participant list holds; otherwise it
\* is the display name of the participant whose identity equals the author
\* identity; and it is absent when no participant matches.
C8_DisplayAuthor ==
    (extracted /\ messages.defined /\ users.defined) =>
        \A i \in 1..Len(messages.val) :
            LET identity == messages.val[i].author
                author == transcriptData[i].author
            IN  /\ identity = Concierge => author = Concierge
                /\ (identity # Concierge /\ hasParticipant(identity)) =>
                      \E j \in 1..Len(users.val) :
                          /\ users.val[j].identity = identity
                          /\ author = users.val[j].friendlyName
                /\ (identity # Concierge /\ ~hasParticipant(identity)) =>
                      author = Absent

C8_Witness ==
    /\ pc = "extracted"
    /\ messages.defined /\ users.defined /\ Len(messages.val) = MaxMsgs
    /\ messages.val[1].author = Concierge
    /\ hasParticipant(Concierge)
    /\ transcriptData[1].author = Concierge
    /\ transcriptData[MaxMsgs].author = "Alice"

(***************************************************************************)
(* Properties of render (getNames, generateTranscript), under SpecFn.      *)
(***************************************************************************)
rendered == pc = "rendered" /\ Len(transcriptData) > 0

\* the names of s in the order of their first occurrence, each once
RECURSIVE firstOccurrences(_, _)
firstOccurrences(s, seen) ==
    IF s = <<>> THEN <<>>
    ELSE IF Head(s) \in seen THEN firstOccurrences(Tail(s), seen)
    ELSE <<Head(s)>> \o firstOccurrences(Tail(s), seen \cup {Head(s)})

RECURSIVE andEach(_)
andEach(names) ==
    IF names = <<>> THEN <<>>
    ELSE <<" and ", Head(names)>> \o andEach(Tail(names))

\* C5: the title is "Conversation with {customer}" followed by
\* " and {agent}" exactly once per distinct agent name, in the order of
\* first occurrence; the agents are the non-absent author names that are
\* neither the customer name nor "Concierge".
C5_TitleNamesEachAgentOnce ==
    rendered =>
        LET customer == transcriptData[1].author
            authors == [i \in 1..Len(transcriptData) |-> transcriptData[i].author]
            agents == firstOccurrences(authors, {customer, Concierge, Absent})
        IN  ~transcript.threw =>
                transcript.title =
                    <<"Conversation with ", Str(customer)>> \o andEach(agents)

\* C9: the attachment marker is on an entry's line if and only if the entry
\* has one or more attached media items, and then it names the first item;
\* an entry whose attached media are absent or present but empty is rendered
\* without a marker and without the render failing.
C9_MarkerIffMediaAttached ==
    rendered =>
        /\ ~transcript.threw
        /\ \A i \in 1..Len(transcriptData) :
              LET n == CountMedia(transcriptData[i].attachedMedia)
                  marker == transcript.lines[i].marker
              IN  /\ marker.defined <=> n >= 1
                  /\ n >= 1 =>
                        marker.val = transcriptData[i].attachedMedia.val[1].filename

(***************************************************************************)
(* Properties of the download (handleDownloadTranscript), under Spec and,  *)
(* for the one about the loading flag, FairSpec.                           *)
(***************************************************************************)
count(s, x) == Cardinality({ i \in 1..Len(s) : s[i] = x })

archiveBuilt == zipState # "none"

ended == pc \in {"returned", "rejected"}

textFile == [blob |-> "transcriptBlob",
             name |-> fileNameOf(transcriptData) \o <<".txt">>]

\* C1: every media item whose URL resolution fails is logged and dropped
\* without failing the download, and the archive holds exactly the items
\* whose resolution succeeded, each under its original filename, together
\* with the transcript text file {stem}.txt.
C1_ArchiveHoldsExactlyResolvedMedia ==
    Len(transcriptData) > 0 =>
        /\ count(logs, "Failed downloading message attachment")
              = count(resolution, "failed")
        /\ Len(mediaURLs) = count(resolution, "ok")
        /\ \A k \in 1..Len(mediaURLs) : resolution[mediaURLs[k].item] = "ok"
        /\ (\E i \in 1..Len(resolution) : resolution[i] = "failed")
              => pc # "rejected"
        /\ archiveBuilt =>
              /\ [name |-> fileNameOf(transcriptData) \o <<".txt">>, data |-> 0]
                    \in zipFiles
              /\ \A k \in 1..Len(mediaURLs) :
                    [name |-> <<mediaURLs[k].filename>>, data |-> k] \in zipFiles
              /\ Cardinality(zipFiles) = 1 + Len(mediaURLs)

\* C2: a download over a non-empty transcript in which no media item
\* survives URL resolution (there were none, or every resolution failed)
\* hands exactly one artifact to the download sink, the text blob named
\* {stem}.txt; no archive is built and no media fetch is issued.
C2_TextOnlyWhenNoMediaSurvive ==
    (ended /\ Len(transcriptData) > 0 /\ Len(mediaURLs) = 0) =>
        /\ saved = <<textFile>>
        /\ ~archiveBuilt
        /\ zipFiles = {}
        /\ fetches = <<>>

\* C3: when a media item survived URL resolution and the fetch of any
\* surviving item ends in a non-success answer, or the generation of the
\* archive fails otherwise, the failure is logged and nothing is handed to
\* the download sink: neither a zip nor a text file.
C3_NoArtifactWhenFetchOrArchiveFails ==
    /\ (\E k \in 1..Len(fetches) : fetches[k] = "rejected") => saved = <<>>
    /\ zipState = "failed" =>
          /\ saved = <<>>
          /\ count(logs, "Failed zipping message attachments") = 1

\* C4: a download whose extracted entry list is empty (no messages, or
\* messages without participants) is rejected at rendering before any I/O:
\* no URL resolution is started, no fetch is issued, nothing is saved.
C4_EmptyTranscriptRejectedBeforeIO ==
    (pc # "idle" /\ Len(transcriptData) = 0) =>
        /\ pc = "rejected"
        /\ transcript.threw
        /\ resolution = <<>>
        /\ mediaURLs = <<>>
        /\ fetches = <<>>
        /\ zipFiles = {}
        /\ ~archiveBuilt
        /\ saved = <<>>

C4_Witness ==
    /\ pc = "rejected"
    /\ messages.defined /\ ~users.defined
    /\ Len(mediaRefs(messages)) = MaxMedia
    /\ Len(transcriptData) = 0
    /\ saved = <<>>

\* C10: once handleDownloadTranscript has set the loading flag, a state
\* with the flag back to false is always reached, whether the download
\* succeeds or fails.
C10_LoadingFlagReturnsToIdle ==
    downloadingTranscript ~> ~downloadingTranscript

====
